---- MODULE Spec2Model ----
(***************************************************************************)
(* Stream relay subsystem of scorecast-live-streamer.                      *)
(*                                                                         *)
(*   client : the useStreamRelay hook (Relay Connection Controller)        *)
(*   server : the Deno stream-relay function (Session Manager and Relay    *)
(*            Socket Handler)                                              *)
(*                                                                         *)
(* Every handler of the JavaScript event loop (an API call up to its first *)
(* await, a socket event handler together with the promise continuations   *)
(* it resumes, a timer callback) is one atomic action.                     *)
(***************************************************************************)
EXTENDS Integers, Sequences, FiniteSets, TLC

\* ---------------------------------------------------------------- bounds
\* WebSocket objects the client may create in one behaviour (server as environment)
MaxSockets == 2
\* connections the server accepts in one behaviour
MaxConns == 1
\* connect() calls that may await their health probe at the same time
MaxInFlight == 2
\* largest value of the maxReconnectAttempts option that is explored
MaxAttemptsOpt == 2
\* start directives that may await the tool check at the same time
MaxStarts == 1
\* pending "live" timers, and pending "stopped" timers
MaxTimers == 1
\* subprocesses spawned in one behaviour
MaxProcs == 1
\* binary frames that arrive at the server in one behaviour
MaxFrames == 2
\* running stats intervals whose handle was overwritten
MaxOverwritten == 1

\* candidate socket endpoints of RAILWAY_SERVER_ENDPOINTS
NumEndpoints == 5

SockIds == 1..MaxSockets
Pids == 1..MaxProcs
\* binary frames, numbered in arrival order
FrameIds == 1..MaxFrames

\* destination keys passed to startStream(); "" is the empty (or missing) key
Keys == {"", "abc123"}

VARIABLES
    mode,           \* "client": the hook, with the network and the server as its
                    \* environment; "server": the relay's control path, with its
                    \* clients as its environment; "media": the relay's media path
                    \* (binary frames, with the directives that make and end Sessions);
                    \* "pair": the relay with two connections; "probe": the Endpoint
                    \* Prober; "sender": the hook with sendBinaryData(); "teardown":
                    \* the hook with its intervals and its last disconnect()
    opts,           \* the hook's options: autoReconnect, maxReconnectAttempts
    state,          \* the hook's React state: status, error, isConnected, isStreaming
    ref,            \* the hook's refs: socketRef, reconnectAttemptsRef, reconnectTimerRef
    ws,             \* the WebSocket objects the hook created, by creation number
    probing,        \* connect() calls awaiting checkServerStatus(), by caller
    orphan,         \* running reconnect timers whose handle was overwritten
    stats,          \* the hook's state.stats: bytesSent, dataChunks
    intervals,      \* the hook's heartbeatTimerRef and statsTimerRef, and the running
                    \* intervals whose handle was overwritten
    released,       \* disconnect() has returned and no connect() or startStream()
                    \* was called since
    ssock,          \* the server's end of each connection: NONE, OPEN, CLOSED
    sockets,        \* the server's map of connected sockets (its keys)
    activeStreams,  \* the server's session registry, per connection
    procs,          \* the transcoding subprocesses ever spawned
    starting,       \* start directives awaiting checkFFmpegAvailability(), per connection
    liveTimers,     \* pending 2 s timers that emit "live", per connection
    stopTimers,     \* pending 1 s timers that emit "stopped", per connection
    chunks,         \* the binary frames: where the handler of each one stands
    prober,         \* a call of checkServerHealth(): its inputs, its loop, its result
    ev              \* what the last step did: returns, frames handled and sent, kills

vars == <<mode, opts, state, ref, ws, probing, orphan, stats, intervals, released, ssock,
          sockets,
          activeStreams, procs, starting, liveTimers, stopTimers, chunks, prober, ev>>

\* ---------------------------------------------------------------- values
Phases == {"idle", "connecting", "connected", "streaming", "error", "disconnected"}

NoCaller == [op |-> "none", key |-> ""]
ConnectCaller == [op |-> "connect", key |-> ""]
StartCaller(k) == [op |-> "start", key |-> k]
\* the reconnect timer's callback, which drops what connect() returns
TimerCaller == [op |-> "timer", key |-> ""]
Callers == {ConnectCaller, TimerCaller} \cup {StartCaller(k) : k \in Keys}

NoStats == [bytesSent |-> 0, dataChunks |-> 0]

NoIntervals == [heartbeatTimerRef |-> FALSE, statsTimerRef |-> FALSE,
                orphanHeartbeat |-> 0, orphanStats |-> 0]

\* the sizes of the blobs passed to sendBinaryData()
Sizes == {1, 2}

NoSocket == [readyState |-> "NONE", handlers |-> FALSE, timeout |-> FALSE, waiter |-> NoCaller,
             endpoint |-> 0]

NoStream == [present |-> FALSE, process |-> 0, key |-> ""]
\* a subprocess: stdin is the frames written to its input, locked whether a writer
\* of its input stream is held
NoProc == [spawned |-> FALSE, running |-> FALSE, conn |-> 0, kills |-> 0,
           locked |-> FALSE, stdin |-> <<>>]
\* a binary frame: not arrived ("new"), its handler awaiting event.data.arrayBuffer()
\* ("buf") or writer.write() ("write") for subprocess proc, or its handler returned
NoChunk == [stage |-> "new", conn |-> 0, proc |-> 0]
DoneChunk == [stage |-> "done", conn |-> 0, proc |-> 0]

Frame(t, a) == [type |-> t, arg |-> a]

Ev(t, s, a) == [type |-> t, sock |-> s, ftype |-> "", arg |-> a]
FrameEv(t, s, f) == [type |-> t, sock |-> s, ftype |-> f.type, arg |-> f.arg]

Has(e) == \E i \in 1..Len(ev) : ev[i] = e
HasType(t) == \E i \in 1..Len(ev) : ev[i].type = t

\* the client and the server as one value each, so that a handler is a function
Client == [state |-> state, ref |-> ref, ws |-> ws, probing |-> probing,
           orphan |-> orphan, stats |-> stats, intervals |-> intervals,
           released |-> released, ev |-> <<>>]

Server == [ssock |-> ssock, sockets |-> sockets, activeStreams |-> activeStreams,
           procs |-> procs, starting |-> starting, liveTimers |-> liveTimers,
           stopTimers |-> stopTimers, chunks |-> chunks, ev |-> <<>>]

Sum(f) ==
    LET RECURSIVE S(_)
        S(D) == IF D = {} THEN 0
                ELSE LET x == CHOOSE y \in D : TRUE IN f[x] + S(D \ {x})
    IN S(DOMAIN f)

Created(w) == Cardinality({s \in SockIds : w[s].readyState # "NONE"})
Spawned(p) == Cardinality({i \in Pids : p[i].spawned})
Starting(q) == Sum([s \in DOMAIN q |-> Len(q[s])])
Arrived(c) == Cardinality({i \in FrameIds : c[i].stage # "new"})

\* ---------------------------------------------------------------- client
\* WebSocket.send(): throws while CONNECTING, queues the frame while OPEN,
\* discards it silently while CLOSING or CLOSED
CanSend(C, s) == C.ws[s].readyState # "CONNECTING"

send(C, s, f) ==
    IF C.ws[s].readyState = "OPEN"
    THEN [C EXCEPT !.ev = Append(@, FrameEv("sent", s, f))]
    ELSE C

\* WebSocket.close()
closeSocket(w, s) ==
    IF w[s].readyState \in {"OPEN", "CONNECTING"}
    THEN [w EXCEPT ![s].readyState = "CLOSING"]
    ELSE w

cleanUp(C) ==
    [C EXCEPT !.ws = IF C.ref.socketRef # 0
                     THEN closeSocket([@ EXCEPT ![C.ref.socketRef].handlers = FALSE],
                                      C.ref.socketRef)
                     ELSE @,
              !.ref.socketRef = 0,
              !.ref.reconnectTimerRef = FALSE,
              !.intervals.statsTimerRef = FALSE,
              !.intervals.heartbeatTimerRef = FALSE]

\* sendHeartbeat(), the callback of the heartbeat interval
sendHeartbeat(C) ==
    LET s == C.ref.socketRef IN
    IF s = 0 \/ C.ws[s].readyState # "OPEN" THEN C
    ELSE send(C, s, Frame("ping", "t"))

\* stopStream(): sends the stop directive when the socket is open
stopStream(C) ==
    LET s == C.ref.socketRef IN
    IF s = 0 \/ C.ws[s].readyState # "OPEN"
    THEN [C EXCEPT !.ev = Append(@, Ev("stopReturn", 0, "false"))]
    ELSE [send(C, s, Frame("stream-stop", "")) EXCEPT
              !.ev = Append(@, Ev("stopReturn", s, "true"))]

\* startStream() that sets the streaming state as soon as the directive is sent
startSendOptimistic(C, k) ==
    LET s == C.ref.socketRef IN
    IF s = 0
    THEN [C EXCEPT !.ev = Append(@, Ev("startReturn", 0, "false"))]
    ELSE IF ~CanSend(C, s)
    THEN [C EXCEPT !.ev = Append(@, Ev("startReturn", s, "false"))]
    ELSE [send(C, s, Frame("stream-start", k)) EXCEPT
              !.stats = NoStats,
              !.state.isStreaming = TRUE,
              !.state.status = "streaming",
              !.ev = Append(@, Ev("startReturn", s, "true"))]

\* startStream() from the point where a socket is expected to be there
startSend(C, k) ==
    LET s == C.ref.socketRef IN
    IF s = 0
    THEN [C EXCEPT !.ev = Append(@, Ev("startReturn", 0, "false"))]
    ELSE IF ~CanSend(C, s)
    THEN [C EXCEPT !.ev = Append(@, Ev("startReturn", s, "false"))]
    ELSE [send(C, s, Frame("stream-start", k)) EXCEPT
              !.stats = NoStats,
              !.ev = Append(@, Ev("startReturn", s, "true"))]

\* sendBinaryData() that looks at the socket only
sendBinaryDataUnguarded(C, size) ==
    LET s == C.ref.socketRef
        C1 == [C EXCEPT !.ev = <<Ev("sendBinaryData", size, "")>>]
    IN IF s = 0 \/ C.ws[s].readyState # "OPEN"
       THEN C1
       ELSE [C1 EXCEPT !.stats.bytesSent = @ + size,
                       !.stats.dataChunks = @ + 1,
                       !.ev = Append(@, Ev("sentBinary", s, ""))]

\* sendBinaryData(data) with data.size = size
sendBinaryData(C, size) ==
    LET s == C.ref.socketRef
        C1 == [C EXCEPT !.ev = <<Ev("sendBinaryData", size, "")>>]
    IN IF s = 0 \/ C.ws[s].readyState # "OPEN" \/ ~C.state.isStreaming
       THEN C1
       ELSE [C1 EXCEPT !.stats.bytesSent = @ + size,
                       !.stats.dataChunks = @ + 1,
                       !.ev = Append(@, Ev("sentBinary", s, ""))]

\* connect() returns r (cause c) to caller o; a startStream() caller goes on
return(C, o, s, r, c) ==
    LET C1 == [C EXCEPT !.ev = Append(@, Ev("connectReturn", s, c)) \o
                              (IF o = TimerCaller THEN <<Ev("reconnectReturn", s, c)>>
                               ELSE <<>>)] IN
    IF o.op = "start"
    THEN IF r THEN startSend(C1, o.key)
         ELSE [C1 EXCEPT !.ev = Append(@, Ev("startReturn", 0, "false"))]
    ELSE C1

\* resolve(r) of the promise connect() awaits for socket s; a second resolve is a no-op
resolve(C, s, r, c) ==
    IF C.ws[s].waiter.op = "none" THEN C
    ELSE return([C EXCEPT !.ws[s].waiter = NoCaller], C.ws[s].waiter, s, r, c)

\* connect() up to its await of checkServerStatus()
connect(C, o) ==
    [cleanUp(C) EXCEPT !.state.status = "connecting",
                       !.state.error = "null",
                       !.released = IF o = TimerCaller THEN @ ELSE FALSE,
                       !.probing[o] = @ + 1]

\* connect() after checkServerStatus(): the offline exit, or the endpoint loop. The
\* constructor throws for the first `thrown` candidates (the catch goes on to the
\* next one); the first socket that is constructed ends the loop, since connect()
\* returns what that socket's promise resolves to. With every constructor throwing
\* the loop ends and connect() takes the error exit after it.
connectResume(C, o, available, thrown) ==
    LET C1 == [C EXCEPT !.probing[o] = @ - 1] IN
    IF ~available
    THEN return([C1 EXCEPT !.state.status = "error", !.state.error = "offline"],
                o, 0, FALSE, "offline")
    ELSE IF thrown = NumEndpoints
    THEN return([C1 EXCEPT !.state.status = "error", !.state.error = "allFailed"],
                o, 0, FALSE, "allFailed")
    ELSE LET s == Created(C.ws) + 1 IN
         [C1 EXCEPT !.ws[s] = [readyState |-> "CONNECTING", handlers |-> TRUE,
                               timeout |-> TRUE, waiter |-> o,
                               endpoint |-> thrown + 1],
                    !.ref.socketRef = s]

\* the 8 s timer of connect()
onTimeout(C, s) ==
    IF C.ref.socketRef = s
    THEN resolve([C EXCEPT !.ws = closeSocket([@ EXCEPT ![s].timeout = FALSE], s)],
                 s, FALSE, "timeout")
    ELSE [C EXCEPT !.ws[s].timeout = FALSE]

onopen(C, s) ==
    resolve([C EXCEPT !.ws[s].timeout = FALSE,
                      !.state.isConnected = TRUE,
                      !.state.status = "connected",
                      !.state.error = "null",
                      !.ref.reconnectAttemptsRef = 0,
                      !.intervals.orphanHeartbeat =
                          IF C.intervals.heartbeatTimerRef THEN @ + 1 ELSE @,
                      !.intervals.heartbeatTimerRef = TRUE],
            s, TRUE, "true")

\* socket.onerror that leaves the socket reference as it is
onerrorKeepsRef(C, s) ==
    resolve([C EXCEPT !.ws[s].timeout = FALSE], s, FALSE, "refused")

onerror(C, s) ==
    resolve([C EXCEPT !.ws[s].timeout = FALSE,
                      !.ref.socketRef = IF @ = s THEN 0 ELSE @],
            s, FALSE, "refused")

\* socket.onclose that reschedules without comparing the counter to the maximum
oncloseUnbounded(C, s) ==
    IF C.ref.socketRef # s THEN C
    ELSE LET C1 == [C EXCEPT !.state.isConnected = FALSE,
                             !.state.isStreaming = FALSE,
                             !.state.status = "disconnected",
                             !.intervals.statsTimerRef = FALSE,
                             !.intervals.heartbeatTimerRef = FALSE]
             C2 == IF opts.autoReconnect
                   THEN [C1 EXCEPT !.ref.reconnectAttemptsRef = @ + 1,
                                   !.orphan = IF C.ref.reconnectTimerRef THEN @ + 1 ELSE @,
                                   !.ref.reconnectTimerRef = TRUE,
                                   !.ev = Append(@, Ev("reconnectScheduled", s, ""))]
                   ELSE C1
         IN [C2 EXCEPT !.ref.socketRef = 0]

onclose(C, s) ==
    IF C.ref.socketRef # s THEN C
    ELSE LET C1 == [C EXCEPT !.state.isConnected = FALSE,
                             !.state.isStreaming = FALSE,
                             !.state.status = "disconnected",
                             !.intervals.statsTimerRef = FALSE,
                             !.intervals.heartbeatTimerRef = FALSE]
             C2 == IF opts.autoReconnect
                      /\ C.ref.reconnectAttemptsRef < opts.maxReconnectAttempts
                   THEN [C1 EXCEPT !.ref.reconnectAttemptsRef = @ + 1,
                                   !.orphan = IF C.ref.reconnectTimerRef THEN @ + 1 ELSE @,
                                   !.ref.reconnectTimerRef = TRUE,
                                   !.ev = Append(@, Ev("reconnectScheduled", s, ""))]
                   ELSE IF C.ref.reconnectAttemptsRef >= opts.maxReconnectAttempts
                   THEN [C1 EXCEPT !.state.error = "exhausted",
                                   !.ev = Append(@, Ev("exhausted", s, ""))]
                   ELSE C1
         IN [C2 EXCEPT !.ref.socketRef = 0]

onmessage(C, s, m) ==
    IF m.type = "stream-status" /\ m.arg = "live"
    THEN [C EXCEPT !.state.isStreaming = TRUE, !.state.status = "streaming",
                   !.intervals.orphanStats = IF C.intervals.statsTimerRef THEN @ + 1 ELSE @,
                   !.intervals.statsTimerRef = TRUE]
    ELSE IF m.type = "stream-status" /\ m.arg = "stopped"
    THEN [C EXCEPT !.state.isStreaming = FALSE, !.state.status = "connected",
                   !.intervals.statsTimerRef = FALSE]
    ELSE C

disconnect(C) ==
    LET C1 == IF C.state.isStreaming THEN stopStream(C) ELSE C IN
    [cleanUp([C1 EXCEPT !.state.status = "disconnected"]) EXCEPT
        !.released = TRUE,
        !.ev = Append(@, Ev("disconnectReturn", 0, ""))]

startStream(C, k) ==
    IF C.ref.socketRef = 0 \/ C.ws[C.ref.socketRef].readyState # "OPEN"
    THEN connect(C, StartCaller(k))
    ELSE startSend([C EXCEPT !.released = FALSE], k)

\* ---------------------------------------------------------------- server
\* socket.send() under the handlers' readyState === OPEN guard
ssend(S, s, f) ==
    IF S.ssock[s] = "OPEN"
    THEN [S EXCEPT !.ev = Append(@, FrameEv("emit", s, f))]
    ELSE S

\* cleanupProcess() that kills the subprocess and keeps the registry entry
cleanupProcessKeepsEntry(S, s) ==
    LET stream == S.activeStreams[s] IN
    IF stream.present /\ stream.process # 0
    THEN [S EXCEPT !.procs[stream.process].kills = @ + 1,
                   !.procs[stream.process].running = FALSE,
                   !.ev = Append(@, Ev("kill", s, ""))]
    ELSE S

cleanupProcess(S, s) ==
    LET stream == S.activeStreams[s] IN
    IF stream.present /\ stream.process # 0
    THEN [S EXCEPT !.procs[stream.process].kills = @ + 1,
                   !.procs[stream.process].running = FALSE,
                   !.activeStreams[s] = NoStream,
                   !.ev = Append(@, Ev("kill", s, ""))]
    ELSE [S EXCEPT !.activeStreams[s] = NoStream]

\* startFFmpegProcess() that spawns without looking at the tool check
startFFmpegProcessUnchecked(S, s, k, available, spawnThrows) ==
    LET p == Spawned(S.procs) + 1 IN
    IF p \in Pids
    THEN [S EXCEPT !.procs[p] = [NoProc EXCEPT !.spawned = TRUE, !.running = TRUE,
                                                !.conn = s],
                   !.activeStreams[s] = [present |-> TRUE, process |-> p, key |-> k],
                   !.ev = Append(@, Ev("spawn", s, ""))]
    ELSE [S EXCEPT !.activeStreams[s] = [present |-> TRUE, process |-> 0, key |-> k],
                   !.ev = Append(@, Ev("simulated", s, ""))]

\* startFFmpegProcess() after its await of checkFFmpegAvailability(): FALSE when the
\* tool is unavailable, else a spawned child, or the simulated session when the
\* spawn throws
startFFmpegProcess(S, s, k, available, spawnThrows) ==
    IF ~available THEN [S EXCEPT !.ev = Append(@, Ev("startFalse", s, ""))]
    ELSE IF spawnThrows
    THEN [S EXCEPT !.activeStreams[s] = [present |-> TRUE, process |-> 0, key |-> k],
                   !.ev = Append(@, Ev("simulated", s, ""))]
    ELSE LET p == Spawned(S.procs) + 1 IN
         [S EXCEPT !.procs[p] = [NoProc EXCEPT !.spawned = TRUE, !.running = TRUE,
                                                !.conn = s],
                   !.activeStreams[s] = [present |-> TRUE, process |-> p, key |-> k],
                   !.ev = Append(@, Ev("spawn", s, ""))]

\* the stream-start case that sets no timer after a successful start
startResumeNoTimer(S, s, i, available, spawnThrows) ==
    LET k == S.starting[s][i]
        S1 == [S EXCEPT !.starting[s] = SubSeq(@, 1, i - 1) \o SubSeq(@, i + 1, Len(@)),
                        !.ev = <<Ev("toolCheck", s, IF available THEN "available"
                                                    ELSE "unavailable")>>]
        S2 == startFFmpegProcess(S1, s, k, available, spawnThrows)
    IN IF available
       THEN S2
       ELSE ssend(S2, s, Frame("error", "startFailed"))

\* the stream-start case after await startFFmpegProcess(); i is the awaiting call,
\* available the outcome of the tool's version query
startResume(S, s, i, available, spawnThrows) ==
    LET k == S.starting[s][i]
        S1 == [S EXCEPT !.starting[s] = SubSeq(@, 1, i - 1) \o SubSeq(@, i + 1, Len(@)),
                        !.ev = <<Ev("toolCheck", s, IF available THEN "available"
                                                    ELSE "unavailable")>>]
        S2 == startFFmpegProcess(S1, s, k, available, spawnThrows)
    IN IF available
       THEN [S2 EXCEPT !.liveTimers[s] = @ + 1]
       ELSE ssend(S2, s, Frame("error", "startFailed"))

\* socket.onmessage whose catch tears the Session down
sonmessageFatalCatch(S, s, f) ==
    IF f.type = "malformed"
    THEN ssend(cleanupProcess(S, s), s, Frame("error", "badMessage"))
    ELSE IF f.type = "stream-start"
    THEN IF f.arg = ""
         THEN ssend(S, s, Frame("error", "noKey"))
         ELSE [S EXCEPT !.starting[s] = Append(@, f.arg)]
    ELSE IF f.type = "stream-stop"
    THEN [cleanupProcess(S, s) EXCEPT !.stopTimers[s] = @ + 1]
    ELSE IF f.type = "ping"
    THEN ssend(S, s, Frame("pong", "now"))
    ELSE ssend(S, s, Frame("error", "unknownType"))

\* socket.onmessage without the stream key check
sonmessageNoKeyCheck(S, s, f) ==
    IF f.type = "malformed"
    THEN ssend(S, s, Frame("error", "badMessage"))
    ELSE IF f.type = "stream-start"
    THEN [S EXCEPT !.starting[s] = Append(@, f.arg)]
    ELSE IF f.type = "stream-stop"
    THEN [cleanupProcess(S, s) EXCEPT !.stopTimers[s] = @ + 1]
    ELSE IF f.type = "ping"
    THEN ssend(S, s, Frame("pong", "now"))
    ELSE ssend(S, s, Frame("error", "unknownType"))

\* socket.onmessage for a text frame, up to its first await
sonmessage(S, s, f) ==
    IF f.type = "malformed"
    THEN ssend(S, s, Frame("error", "badMessage"))
    ELSE IF f.type = "stream-start"
    THEN IF f.arg = ""
         THEN ssend(S, s, Frame("error", "noKey"))
         ELSE [S EXCEPT !.starting[s] = Append(@, f.arg)]
    ELSE IF f.type = "stream-stop"
    THEN [cleanupProcess(S, s) EXCEPT !.stopTimers[s] = @ + 1]
    ELSE IF f.type = "ping"
    THEN ssend(S, s, Frame("pong", "now"))
    ELSE ssend(S, s, Frame("error", "unknownType"))

AckFrame == Frame("chunk-received", "")

\* the binary handler that answers a frame without a Session with an error message
onbinaryAnswersError(S, s) ==
    LET i == Arrived(S.chunks) + 1
        activeStream == S.activeStreams[s]
        S1 == [S EXCEPT !.ev = <<Ev("binary", s, "")>>]
    IN IF ~activeStream.present
       THEN ssend([S1 EXCEPT !.chunks[i] = DoneChunk], s, Frame("error", "noStream"))
       ELSE IF activeStream.process = 0
       THEN ssend([S1 EXCEPT !.chunks[i] = DoneChunk], s, AckFrame)
       ELSE [S1 EXCEPT !.chunks[i] = [stage |-> "buf", conn |-> s,
                                      proc |-> activeStream.process]]

\* socket.onmessage for a binary frame, up to its first await: dropped without a
\* Session, acknowledged at once for a simulated Session, else the handler awaits
\* event.data.arrayBuffer() holding the Session's subprocess
onbinary(S, s) ==
    LET i == Arrived(S.chunks) + 1
        activeStream == S.activeStreams[s]
        S1 == [S EXCEPT !.ev = <<Ev("binary", s, "")>>]
    IN IF ~activeStream.present
       THEN [S1 EXCEPT !.chunks[i] = DoneChunk, !.ev = Append(@, Ev("noStream", s, ""))]
       ELSE IF activeStream.process = 0
       THEN ssend([S1 EXCEPT !.chunks[i] = DoneChunk], s, AckFrame)
       ELSE [S1 EXCEPT !.chunks[i] = [stage |-> "buf", conn |-> s,
                                      proc |-> activeStream.process]]

\* the binary handler of frame i after arrayBuffer(): stdin.getWriter() throws when
\* the stream is locked (caught and logged, then the acknowledgement); else the
\* handler holds the writer and awaits writer.write()
onbuffer(S, i) ==
    LET c == S.chunks[i] IN
    IF S.procs[c.proc].locked
    THEN ssend([S EXCEPT !.chunks[i] = DoneChunk,
                         !.ev = <<Ev("getWriterThrows", c.conn, "")>>], c.conn, AckFrame)
    ELSE [S EXCEPT !.chunks[i].stage = "write",
                   !.procs[c.proc].locked = TRUE,
                   !.ev = <<Ev("writing", c.conn, "")>>]

\* the binary handler of frame i after writer.write(): releaseLock() when the write
\* succeeded; a rejected write skips it in the catch; then the acknowledgement
onwritten(S, i, ok) ==
    LET c == S.chunks[i]
        S1 == IF ok
              THEN [S EXCEPT !.procs[c.proc].stdin = Append(@, i),
                             !.procs[c.proc].locked = FALSE,
                             !.ev = <<Ev("written", c.conn, "")>>]
              ELSE [S EXCEPT !.ev = <<Ev("writeFailed", c.conn, "")>>]
    IN ssend([S1 EXCEPT !.chunks[i] = DoneChunk], c.conn, AckFrame)

\* the close handler that empties the registry instead of deleting its own entry
soncloseClearsRegistry(S, s) ==
    [cleanupProcess(S, s) EXCEPT !.activeStreams = [t \in SockIds |-> NoStream],
                                 !.sockets = @ \ {s}]

\* socket.onerror and socket.onclose have the same body
sonclose(S, s) ==
    [cleanupProcess(S, s) EXCEPT !.sockets = @ \ {s}]

\* ---------------------------------------------------------------- prober
\* base locations of SERVER_ENDPOINTS, by position
NumStatic == 15
\* a base location that is not in SERVER_ENDPOINTS, as the caller may pass
UserBase == NumStatic + 1
\* a Railway host the page may be served from that is not in SERVER_ENDPOINTS
HostBase == NumStatic + 2
\* the host of RAILWAY_SERVER_ENDPOINTS[3], which is not in SERVER_ENDPOINTS
WsOnlyBase == NumStatic + 3

\* the status paths generateEndpoints() appends to a base location
Paths == <<"/health", "", "/health-plain", "/ping", "/ffmpeg-check">>

Candidate(b, p) == [base |-> b, path |-> p]

Variations(b) == [i \in 1..Len(Paths) |-> Candidate(b, Paths[i])]

\* SERVER_ENDPOINTS.forEach from position k on, skipping the caller's location
RECURSIVE StaticFrom(_, _)
StaticFrom(k, user) ==
    IF k > NumStatic THEN <<>>
    ELSE (IF k = user THEN <<>> ELSE Variations(k)) \o StaticFrom(k + 1, user)

\* generateEndpoints(): user is the caller's location (0: none), host the Railway
\* host the page is served from (0: the page is not on a Railway domain); the
\* four unshift() calls put the host's candidates in front, the last one first
generateEndpoints(user, host) ==
    LET endpoints == (IF user # 0 THEN Variations(user) ELSE <<>>) \o StaticFrom(1, user)
    IN IF host # 0
       THEN <<Candidate(host, "/ping"), Candidate(host, "/health-plain"),
              Candidate(host, ""), Candidate(host, "/health")>> \o endpoints
       ELSE endpoints

\* the hosts of RAILWAY_SERVER_ENDPOINTS, as positions of SERVER_ENDPOINTS
RailwayBases == <<1, 8, 5, WsOnlyBase, 7>>

\* connect(): the socket endpoints it tries, in order, with discovered the host
\* of discoveredWsEndpointRef (0: none); the wsEndpoint option is not read
endpointsToTry(wsEndpoint, discovered) ==
    LET static == [k \in 1..NumEndpoints |-> Candidate(RailwayBases[k], "/stream")]
    IN IF discovered # 0 THEN <<Candidate(discovered, "/stream")>> \o static ELSE static

\* what a fetch of a candidate can come to: it throws (unreachable, aborted
\* after 8 s), or a response with a status code and a body
Answer(c, k) == [code |-> c, kind |-> k]

Answers ==
    {Answer("0", "throws")} \cup
    {Answer("200", k) : k \in {"jsonAvail", "jsonUnavail", "jsonNoField", "jsonBad",
                               "textOK", "textPong", "textOther"}} \cup
    {Answer(c, k) : c \in {"400", "404", "426"}, k \in {"jsonWebSocket", "jsonOther", "notJson"}}
    \cup {Answer("500", "jsonOther")}

FFmpegStatuses == {"available", "unavailable", "unknown"}

NoResult == [status |-> "unknown", ffmpegStatus |-> "unknown", serverUrl |-> 0]
NoProber == [user |-> 0, host |-> 0, wsEndpoint |-> 0, at |-> 0, result |-> NoResult]

\* the loop body that takes every response that is not 2xx for a failure
probeUpgradeIsFailure(at, a, ff) ==
    LET online(f) == [status |-> "online", ffmpegStatus |-> f, serverUrl |-> at] IN
    IF a.code = "200"
    THEN CASE a.kind = "jsonAvail" -> online("available")
           [] a.kind = "jsonUnavail" -> online("unavailable")
           [] a.kind = "jsonNoField" -> online("available")
           [] a.kind = "textOK" -> online("available")
           [] OTHER -> online(ff)
    ELSE NoResult

\* one turn of the loop of checkServerHealth() for candidate number at and answer a;
\* ff is what checkFFmpegStatus() finds where the branch awaits it. The result is
\* NoResult when the candidate is passed over.
probe(at, a, ff) ==
    LET online(f) == [status |-> "online", ffmpegStatus |-> f, serverUrl |-> at] IN
    IF a.code = "200"
    THEN CASE a.kind = "jsonAvail" -> online("available")
           [] a.kind = "jsonUnavail" -> online("unavailable")
           [] a.kind = "jsonNoField" -> online("available")
           [] a.kind = "textOK" -> online("available")
           [] OTHER -> online(ff)
    ELSE IF a.code \in {"400", "404"} /\ a.kind = "jsonWebSocket"
    THEN online(ff)
    ELSE NoResult

\* checkServerHealth() that reports the head of the list as the working location
checkServerHealthReportsHead(P, a, ff) ==
    LET at == P.at + 1
        r == probe(at, a, ff)
    IN IF r # NoResult THEN [P EXCEPT !.at = at, !.result = [r EXCEPT !.serverUrl = 1]]
       ELSE IF at = Len(generateEndpoints(P.user, P.host))
       THEN [P EXCEPT !.at = at, !.result.status = "offline"]
       ELSE [P EXCEPT !.at = at]

\* checkServerHealth() from one fetch to the next, or to its return
checkServerHealth(P, a, ff) ==
    LET at == P.at + 1
        r == probe(at, a, ff)
    IN IF r # NoResult THEN [P EXCEPT !.at = at, !.result = r]
       ELSE IF at = Len(generateEndpoints(P.user, P.host))
       THEN [P EXCEPT !.at = at, !.result.status = "offline"]
       ELSE [P EXCEPT !.at = at]

\* ---------------------------------------------------------------- status endpoints
\* the two relays of the repository: the Node server and the Deno function
Relays == {"server.js", "stream-relay"}

Response(c, ct, a, b) == [code |-> c, contentType |-> ct, ffmpegAvailable |-> a, text |-> b]

JsonBool(b) == IF b THEN "true" ELSE "false"

\* a status endpoint that answers 503 when the tool's version query fails
statusEndpointFailsWithoutTool(relay, path, tool) ==
    IF ~tool /\ path \in {"/health", "/health-plain", "/ffmpeg-check"}
    THEN Response("503", "json", JsonBool(tool), "")
    ELSE IF path = "/health-plain"
    THEN Response("200", "text", "", "OK: FFmpeg available")
    ELSE IF path = "/ping"
    THEN Response("200", "text", "", "pong")
    ELSE IF path = "" /\ relay = "server.js"
    THEN Response("200", "json", "undefined", "")
    ELSE Response("200", "json", JsonBool(tool), "")

\* GET of a status path on a relay; tool is the outcome of the tool's version
\* query (execSync('ffmpeg -version') does not throw, checkFFmpegAvailability()
\* finds exit code 0)
statusEndpoint(relay, path, tool) ==
    IF path = "/health-plain"
    THEN Response("200", "text", "",
                  IF tool THEN "OK: FFmpeg available"
                  ELSE IF relay = "server.js" THEN "ERROR: FFmpeg not available"
                  ELSE "WARNING: FFmpeg not available")
    ELSE IF path = "/ping"
    THEN Response("200", "text", "", "pong")
    ELSE IF path = "" /\ relay = "server.js"
    THEN Response("200", "json", "undefined", "")
    ELSE Response("200", "json", JsonBool(tool), "")

\* the texts of the relays that contain one of the words checkServerHealth()
\* looks for (OK, online, available, running): "not available" contains "available"
HealthyTexts ==
    {"OK: FFmpeg available", "ERROR: FFmpeg not available", "WARNING: FFmpeg not available"}

\* how checkServerHealth() reads a relay's response
AnswerOf(resp) ==
    IF resp.contentType = "json"
    THEN Answer(resp.code,
                IF resp.code # "200" THEN "jsonOther"
                ELSE IF resp.ffmpegAvailable = "true" THEN "jsonAvail"
                ELSE IF resp.ffmpegAvailable = "false" THEN "jsonUnavail"
                ELSE "jsonNoField")
    ELSE Answer(resp.code,
                IF resp.text \in HealthyTexts THEN "textOK"
                ELSE IF resp.text = "pong" THEN "textPong"
                ELSE "textOther")

\* ---------------------------------------------------------------- actions
\* A socket whose handlers were detached has socketRef !== socket for ever, so
\* its connect timer and the promise awaiting it can no longer act: they are
\* dropped from the state. The endpoint is the loop variable of the connect()
\* call awaiting the socket and goes with that call.
Settle(w) ==
    [s \in SockIds |->
        LET x == IF w[s].handlers THEN w[s]
                 ELSE [w[s] EXCEPT !.timeout = FALSE, !.waiter = NoCaller]
        IN IF x.waiter = NoCaller THEN [x EXCEPT !.endpoint = 0] ELSE x]

CommitClient(C) ==
    /\ state' = C.state
    /\ ref' = C.ref
    /\ ws' = Settle(C.ws)
    /\ probing' = C.probing
    /\ orphan' = C.orphan
    /\ stats' = C.stats
    /\ intervals' = IF mode = "teardown" THEN C.intervals ELSE NoIntervals
    /\ released' = (mode = "teardown" /\ C.released)
    /\ ev' = C.ev
    /\ UNCHANGED <<mode, opts, ssock, sockets, activeStreams, procs, starting,
                   liveTimers, stopTimers, chunks, prober>>

\* The status timers of a socket that is no longer open find readyState !== OPEN
\* and do nothing: they are dropped from the state. The timers only send a status
\* frame and touch nothing the media path reads: the media mode does not follow them.
SettleTimers(S, timers) ==
    [s \in SockIds |-> IF S.ssock[s] = "OPEN" /\ mode = "server" THEN timers[s] ELSE 0]

\* What the claims about a pair of connections read of a step is the connection
\* whose handler ran: it is the connection of the step's first event.
Actor(e) == IF e = <<>> THEN <<>> ELSE <<Ev("handler", e[1].sock, "")>>

CommitServer(S) ==
    /\ ssock' = S.ssock
    /\ sockets' = S.sockets
    /\ activeStreams' = S.activeStreams
    /\ procs' = S.procs
    /\ starting' = S.starting
    /\ liveTimers' = SettleTimers(S, S.liveTimers)
    /\ stopTimers' = SettleTimers(S, S.stopTimers)
    /\ chunks' = S.chunks
    /\ ev' = IF mode = "pair" THEN Actor(S.ev) ELSE S.ev
    /\ UNCHANGED <<mode, opts, state, ref, ws, probing, orphan, stats, intervals, released,
                   prober>>

\* the modes in which the hook's handlers run: in "sender" the user also passes
\* media to sendBinaryData(), in "teardown" what a teardown has to release is
\* followed: the heartbeat and stats intervals, and whether disconnect() was the
\* last call. The intervals' callbacks send a ping and refresh the displayed
\* duration and touch nothing else of the hook: the other modes do not follow them.
ClientModes == {"client", "sender", "teardown"}

\* a connect() may start only while a socket number is left for it
MayConnect == Created(ws) + Sum(probing) < MaxSockets /\ Sum(probing) < MaxInFlight

UserConnect ==
    /\ mode \in ClientModes
    /\ MayConnect
    /\ CommitClient(connect(Client, ConnectCaller))

UserDisconnect ==
    /\ mode \in ClientModes
    /\ CommitClient(disconnect(Client))

UserStartStream ==
    /\ mode \in ClientModes
    /\ \E k \in Keys :
        /\ (ref.socketRef = 0 \/ ws[ref.socketRef].readyState # "OPEN") => MayConnect
        /\ CommitClient(startStream(Client, k))

UserStopStream ==
    /\ mode \in ClientModes
    /\ CommitClient(stopStream(Client))

\* the reconnect timer fires: the one the handle names, or an overwritten one
ReconnectTimerFires ==
    /\ mode \in ClientModes
    /\ MayConnect
    /\ \/ /\ ref.reconnectTimerRef
          /\ CommitClient(connect([Client EXCEPT !.ev = <<Ev("timerConnect", 0, "")>>],
                                  TimerCaller))
       \/ /\ orphan > 0
          /\ CommitClient(connect([Client EXCEPT !.orphan = @ - 1,
                                                 !.ev = <<Ev("timerConnect", 0, "")>>],
                                  TimerCaller))

\* checkServerStatus() completes inside a connect(): true when a candidate answered
\* and its status body reports the tool available. The candidates are constant
\* wss: URLs of one shape, so the WebSocket constructor accepts them all or (where
\* the platform refuses to construct sockets) throws for them all.
ProbeDone ==
    /\ mode \in ClientModes
    /\ \E o \in Callers, r \in {"available", "unavailable", "offline"},
          thrown \in {0, NumEndpoints} :
        /\ probing[o] > 0
        /\ r # "available" => thrown = 0
        /\ CommitClient(connectResume([Client EXCEPT !.ev = <<Ev("healthResult", 0, r)>>],
                                      o, r = "available", thrown))

ConnectTimeout ==
    /\ mode \in ClientModes
    /\ \E s \in SockIds :
        /\ ws[s].timeout
            /\ CommitClient(onTimeout(Client, s))

\* the socket opens
SocketOpens ==
    /\ mode \in ClientModes
    /\ \E s \in SockIds :
        /\ ws[s].readyState = "CONNECTING"
            /\ LET C == [Client EXCEPT !.ws[s].readyState = "OPEN"] IN
           CommitClient(IF ws[s].handlers THEN onopen(C, s) ELSE C)

\* the socket is closed: the close event, preceded by the error event when the
\* connection failed; a connection that was never established, also one given up
\* by close() while CONNECTING, has failed
SocketCloses ==
    /\ mode \in ClientModes
    /\ \E s \in SockIds, err \in BOOLEAN :
        /\ ws[s].readyState \in {"CONNECTING", "OPEN", "CLOSING"}
        /\ ws[s].readyState # "OPEN" => err
        /\ LET C == [Client EXCEPT !.ws[s].readyState = "CLOSED",
                                   !.ev = <<Ev("closeEvent", s, ws[s].readyState)>>]
               C1 == IF err THEN onerror(C, s) ELSE C
           IN CommitClient(IF ws[s].handlers THEN onclose(C1, s) ELSE C)

S2CFrames ==
    {Frame("connection", "connected"), Frame("stream-status", "live"),
     Frame("stream-status", "stopped"), Frame("error", "startFailed"),
     Frame("pong", "now"), Frame("chunk-received", "")}

\* a frame of the server arrives on an open socket
SocketMessage ==
    /\ mode \in ClientModes
    /\ \E s \in SockIds :
        /\ ws[s].readyState = "OPEN"
        /\ \E m \in S2CFrames :
            /\ (m = Frame("stream-status", "live") /\ intervals.statsTimerRef)
               => intervals.orphanStats < MaxOverwritten
            /\ LET C == [Client EXCEPT !.ev = <<FrameEv("received", s, m)>>]
               IN CommitClient(IF ws[s].handlers THEN onmessage(C, s, m) ELSE C)

\* The modes in which the server's handlers run, and those with binary frames
ServerModes == {"server", "media", "pair"}
MediaModes == {"media", "pair"}

\* The connections that are followed. The handlers of a connection read and write
\* only the map entries of their own socketId and the subprocess found there, so
\* the media path is followed for one connection; what the handlers of one
\* connection do to another is followed for a pair of connections.
Conns == IF mode = "media" THEN {1} ELSE IF mode = "pair" THEN {1, 2} ELSE 1..MaxConns

\* The connections whose binary frames are followed: of a pair of connections the
\* first streams media, next to the directives of both.
MediaConns == IF mode = "pair" THEN {1} ELSE Conns

\* the server accepts a connection: sockets.set, and socket.onopen acknowledges
ServerAcceptOn(s) ==
    /\ mode \in ServerModes
    /\ s \in Conns
    /\ ssock[s] = "NONE"
    /\ \A t \in 1..(s - 1) : ssock[t] # "NONE"
    /\ CommitServer(ssend([Server EXCEPT !.ssock[s] = "OPEN", !.sockets = @ \cup {s}],
                          s, Frame("connection", "connected")))

ServerAccept == \E s \in Conns : ServerAcceptOn(s)

C2SFrames ==
    {Frame("stream-start", k) : k \in Keys} \cup
    {Frame("stream-stop", ""), Frame("ping", "t"), Frame("malformed", ""),
     Frame("unknown", "")}

\* the directives that make and end Sessions
MediaFrames == {Frame("stream-start", "abc123"), Frame("stream-stop", "")}

\* the directives, and a text frame that is not valid JSON
PairFrames == MediaFrames \cup {Frame("malformed", "")}

TextFrames ==
    IF mode = "media" THEN MediaFrames ELSE IF mode = "pair" THEN PairFrames ELSE C2SFrames

\* a text frame of the client arrives
ServerMessage ==
    /\ mode \in ServerModes
    /\ \E s \in Conns :
        /\ ssock[s] = "OPEN"
        /\ \E f \in TextFrames :
            /\ f.type = "stream-start" => Starting(starting) < MaxStarts
            /\ f.type = "stream-stop" => Sum(stopTimers) < MaxTimers
            /\ CommitServer(sonmessage([Server EXCEPT !.ev = <<FrameEv("handled", s, f)>>],
                                       s, f))

\* checkFFmpegAvailability() completes inside a stream-start handler of connection s
StartResumesOn(s) ==
    /\ mode \in ServerModes
    /\ \E available \in BOOLEAN, spawnThrows \in BOOLEAN :
        /\ \E i \in 1..Len(starting[s]) :
            /\ available => Sum(liveTimers) < MaxTimers
            /\ available /\ ~spawnThrows => Spawned(procs) < MaxProcs
            /\ ~available => ~spawnThrows
            /\ CommitServer(startResume(Server, s, i, available, spawnThrows))

StartResumes == \E s \in Conns : StartResumesOn(s)

\* a 2 s timer of connection s fires
LiveTimerFiresOn(s) ==
    /\ mode = "server"
    /\ liveTimers[s] > 0
    /\ CommitServer(ssend([Server EXCEPT !.liveTimers[s] = @ - 1], s,
                          Frame("stream-status", "live")))

LiveTimerFires == \E s \in 1..MaxConns : LiveTimerFiresOn(s)

\* a 1 s timer of connection s fires
StopTimerFiresOn(s) ==
    /\ mode = "server"
    /\ stopTimers[s] > 0
    /\ CommitServer(ssend([Server EXCEPT !.stopTimers[s] = @ - 1], s,
                          Frame("stream-status", "stopped")))

StopTimerFires == \E s \in 1..MaxConns : StopTimerFiresOn(s)

\* a binary frame of the client arrives
BinaryMessage ==
    /\ mode \in MediaModes
    /\ Arrived(chunks) < MaxFrames
    /\ \E s \in MediaConns :
        /\ ssock[s] = "OPEN"
        /\ CommitServer(onbinary(Server, s))

\* event.data.arrayBuffer() completes inside a binary handler
BufferReady ==
    /\ mode \in MediaModes
    /\ \E i \in FrameIds :
        /\ chunks[i].stage = "buf"
        /\ CommitServer(onbuffer(Server, i))

\* writer.write() completes inside a binary handler; a subprocess that was killed
\* takes no more input
WriteDone ==
    /\ mode \in MediaModes
    /\ \E i \in FrameIds, ok \in BOOLEAN :
        /\ chunks[i].stage = "write"
        /\ ok => procs[chunks[i].proc].running
        /\ CommitServer(onwritten(Server, i, ok))

\* the server's end closes: the error event (when there was one) and the close event
ServerSocketCloses ==
    /\ mode \in ServerModes
    /\ \E s \in Conns, err \in BOOLEAN :
        /\ ssock[s] = "OPEN"
        /\ LET S == [Server EXCEPT !.ssock[s] = "CLOSED",
                                   !.ev = <<Ev("serverClosed", s, "")>>]
               S1 == IF err THEN sonclose(S, s) ELSE S
           IN CommitServer(sonclose(S1, s))

\* the user (the recorder's ondataavailable) calls sendBinaryData()
UserSendBinary ==
    /\ mode = "sender"
    /\ stats.dataChunks < MaxFrames
    /\ \E size \in Sizes : CommitClient(sendBinaryData(Client, size))

\* a heartbeat interval is due: the one the handle names, or an overwritten one
HeartbeatFires ==
    /\ mode = "teardown"
    /\ intervals.heartbeatTimerRef \/ intervals.orphanHeartbeat > 0
    /\ CommitClient(sendHeartbeat([Client EXCEPT !.ev = <<Ev("heartbeat", 0, "")>>]))

\* a stats interval is due: updateStats() refreshes stats.duration, which is not
\* followed
StatsTimerFires ==
    /\ mode = "teardown"
    /\ intervals.statsTimerRef \/ intervals.orphanStats > 0
    /\ CommitClient([Client EXCEPT !.ev = <<Ev("updateStats", 0, "")>>])

\* the fetch of the next candidate of checkServerHealth() is answered
ProbeAnswered ==
    /\ mode = "probe"
    /\ prober.result.status = "unknown"
    /\ \E a \in Answers, ff \in FFmpegStatuses :
        /\ prober' = checkServerHealth(prober, a, ff)
        /\ ev' = <<[type |-> "fetch", sock |-> prober.at + 1, ftype |-> a.kind,
                    arg |-> a.code]>>
    /\ UNCHANGED <<mode, opts, state, ref, ws, probing, orphan, stats, intervals, released,
                   ssock, sockets, activeStreams, procs, starting, liveTimers, stopTimers,
                   chunks>>

\* the fetch of the next candidate of checkServerHealth() goes to a relay of the
\* repository, whose status endpoint answers it; checkFFmpegStatus(), where the
\* branch awaits it, reads the same relay's /ffmpeg-check
RelayAnswers ==
    /\ mode = "probe"
    /\ prober.result.status = "unknown"
    /\ \E relay \in Relays, tool \in BOOLEAN :
        LET at == prober.at + 1
            path == generateEndpoints(prober.user, prober.host)[at].path
            resp == statusEndpoint(relay, path, tool)
            a == AnswerOf(resp)
        IN /\ prober' = checkServerHealth(prober, a,
                                          IF tool THEN "available" ELSE "unavailable")
           /\ ev' = <<[type |-> "fetch", sock |-> at, ftype |-> a.kind, arg |-> a.code],
                      Ev("toolQuery", at, JsonBool(tool)),
                      [type |-> "response", sock |-> at, ftype |-> path, arg |-> resp.code],
                      [type |-> "body", sock |-> at, ftype |-> resp.ffmpegAvailable,
                       arg |-> resp.text]>>
    /\ UNCHANGED <<mode, opts, state, ref, ws, probing, orphan, stats, intervals, released,
                   ssock, sockets, activeStreams, procs, starting, liveTimers, stopTimers,
                   chunks>>

\* ---------------------------------------------------------------- specifications
InitState ==
    /\ state = [status |-> "idle", error |-> "null",
                isConnected |-> FALSE, isStreaming |-> FALSE]
    /\ ref = [socketRef |-> 0, reconnectAttemptsRef |-> 0, reconnectTimerRef |-> FALSE]
    /\ ws = [s \in SockIds |-> NoSocket]
    /\ probing = [o \in Callers |-> 0]
    /\ orphan = 0
    /\ stats = NoStats
    /\ intervals = NoIntervals
    /\ released = FALSE
    /\ ssock = [s \in SockIds |-> "NONE"]
    /\ sockets = {}
    /\ activeStreams = [s \in SockIds |-> NoStream]
    /\ procs = [p \in Pids |-> NoProc]
    /\ starting = [s \in SockIds |-> <<>>]
    /\ liveTimers = [s \in SockIds |-> 0]
    /\ stopTimers = [s \in SockIds |-> 0]
    /\ chunks = [i \in FrameIds |-> NoChunk]
    /\ ev = <<>>

InitIdle ==
    /\ InitState
    /\ prober = NoProber

ClientActions ==
    \/ UserConnect
    \/ UserDisconnect
    \/ UserStartStream
    \/ UserStopStream
    \/ ReconnectTimerFires
    \/ ProbeDone
    \/ ConnectTimeout
    \/ SocketOpens
    \/ SocketCloses
    \/ SocketMessage

ServerActions ==
    \/ ServerAccept
    \/ ServerMessage
    \/ StartResumes
    \/ LiveTimerFires
    \/ StopTimerFires
    \/ ServerSocketCloses

MediaActions ==
    \/ ServerAccept
    \/ ServerMessage
    \/ StartResumes
    \/ BinaryMessage
    \/ BufferReady
    \/ WriteDone
    \/ ServerSocketCloses

\* the client, with the network and the server as its environment
InitClient ==
    /\ mode = "client"
    /\ opts \in [autoReconnect : BOOLEAN, maxReconnectAttempts : 0..MaxAttemptsOpt]
    /\ InitIdle

NextClient == ClientActions

SpecClient == InitClient /\ [][NextClient]_vars

\* the server, with the network and its clients as its environment
InitServer ==
    /\ mode = "server"
    /\ opts = [autoReconnect |-> TRUE, maxReconnectAttempts |-> MaxAttemptsOpt]
    /\ InitIdle

NextServer == ServerActions

SpecServer == InitServer /\ [][NextServer]_vars

\* the server's media path, with its clients as its environment
InitMedia ==
    /\ mode = "media"
    /\ opts = [autoReconnect |-> TRUE, maxReconnectAttempts |-> MaxAttemptsOpt]
    /\ InitIdle

NextMedia == MediaActions

SpecMedia == InitMedia /\ [][NextMedia]_vars

\* the server with a pair of connections, on both its control and its media path
InitPair ==
    /\ mode = "pair"
    /\ opts = [autoReconnect |-> TRUE, maxReconnectAttempts |-> MaxAttemptsOpt]
    /\ InitIdle

NextPair == MediaActions

SpecPair == InitPair /\ [][NextPair]_vars

\* the Endpoint Prober, with the candidates' answers as its environment: called
\* with or without a location, from a page on or off a Railway domain
InitProbe ==
    /\ mode = "probe"
    /\ opts = [autoReconnect |-> TRUE, maxReconnectAttempts |-> MaxAttemptsOpt]
    /\ InitState
    /\ \E user \in {0, 1, UserBase}, host \in {0, 1, HostBase}, wsEndpoint \in {0, UserBase} :
          prober = [NoProber EXCEPT !.user = user, !.host = host, !.wsEndpoint = wsEndpoint]

NextProbe == ProbeAnswered \/ RelayAnswers

SpecProbe == InitProbe /\ [][NextProbe]_vars

\* the hook with its default options, with a user that also sends media
InitSender ==
    /\ mode = "sender"
    /\ opts = [autoReconnect |-> TRUE, maxReconnectAttempts |-> MaxAttemptsOpt]
    /\ InitIdle

NextSender == ClientActions \/ UserSendBinary

SpecSender == InitSender /\ [][NextSender]_vars

\* the hook with its default options, with its heartbeat and stats intervals and
\* with the memory of its last disconnect()
InitTeardown ==
    /\ mode = "teardown"
    /\ opts = [autoReconnect |-> TRUE, maxReconnectAttempts |-> MaxAttemptsOpt]
    /\ InitIdle

NextTeardown == ClientActions \/ HeartbeatFires \/ StatsTimerFires

SpecTeardown == InitTeardown /\ [][NextTeardown]_vars

\* both open systems: a behaviour is one of the client or one of the server
Init == InitClient \/ InitServer

Next == ClientActions \/ ServerActions

Spec == Init /\ [][Next]_vars

\* the hook called with no options (autoReconnect on, the largest maximum explored),
\* or the server
InitDefault ==
    \/ /\ mode = "client"
       /\ opts = [autoReconnect |-> TRUE, maxReconnectAttempts |-> MaxAttemptsOpt]
       /\ InitIdle
    \/ InitServer

SpecDefault == InitDefault /\ [][Next]_vars

\* The server's event loop runs every continuation that is ready and every timer
\* that is due: an awaited tool check completes and a set timer fires.
ServerFairness ==
    \A s \in 1..MaxConns :
        /\ WF_vars(StartResumesOn(s))
        /\ WF_vars(LiveTimerFiresOn(s))
        /\ WF_vars(StopTimerFiresOn(s))

\* The handlers of a connection read and write only the entries of their own
\* socketId, so what a connection's directives lead to is followed for one
\* connection of the server, next to the hook with its default options.
FairActions ==
    \/ ServerAcceptOn(1)
    \/ ServerMessage
    \/ StartResumes
    \/ LiveTimerFires
    \/ StopTimerFires
    \/ ServerSocketCloses

NextFair == ClientActions \/ FairActions

SpecFair == InitDefault /\ [][NextFair]_vars /\ ServerFairness

\* ---------------------------------------------------------------- claims
Live(s) == ws[s].readyState \in {"CONNECTING", "OPEN"}

LiveFrame == Frame("stream-status", "live")

\* C1: at most one socket is CONNECTING or OPEN at any time: every socket the
\* Controller created, other than the one its socket reference holds, is closed.
C1_AtMostOneLiveSocket ==
    \A s \in SockIds : Live(s) => ref.socketRef = s

\* C2: once a connection's socket has closed or errored and no handler of the
\* connection is still in flight, the connection has no registry entry and no
\* bookkeeping, and every subprocess spawned for it was killed exactly once.
C2_SocketLossLeavesNoSubprocess ==
    \A s \in 1..MaxConns :
        ssock[s] = "CLOSED" /\ starting[s] = <<>> =>
            /\ ~activeStreams[s].present
            /\ s \notin sockets
            /\ \A p \in Pids : procs[p].spawned /\ procs[p].conn = s =>
                   ~procs[p].running /\ procs[p].kills = 1

\* C3: the reconnect attempt counter is between 0 and maxReconnectAttempts in
\* every reachable state.
C3_AttemptsBounded ==
    ref.reconnectAttemptsRef \in 0..opts.maxReconnectAttempts

\* C3 witness: a close of the current socket has raised the counter to a maximum
\* that is not zero.
C3_Witness ==
    /\ opts.maxReconnectAttempts > 0
    /\ ref.reconnectAttemptsRef = opts.maxReconnectAttempts
    /\ HasType("reconnectScheduled")

\* C4: when the current socket closes with the counter at the maximum, the phase
\* becomes error with the exhaustion diagnostic, and while that diagnostic stands
\* (until the next connect()) no reconnect timer is pending.
C4_ExhaustionIsError ==
    /\ HasType("exhausted") => state.status = "error" /\ state.error = "exhausted"
    /\ state.error = "exhausted" => ~ref.reconnectTimerRef /\ orphan = 0

\* C5: disconnect() does not increment the reconnect counter, schedules no
\* reconnect timer and leaves no reconnect timer running, so that no timer-driven
\* connect() can run after it.
C5_DisconnectStopsReconnection ==
    [][HasType("disconnectReturn")' =>
          /\ ref'.reconnectAttemptsRef = ref.reconnectAttemptsRef
          /\ ~HasType("reconnectScheduled")'
          /\ ~ref'.reconnectTimerRef
          /\ orphan' = 0]_vars

C7_LiveOnlyWithSession ==
    \A s \in SockIds :
        Has(FrameEv("emit", s, LiveFrame)) => activeStreams[s].present

\* C8: a stream-start whose key is missing or empty is answered with an error
\* frame, and leaves the registry, the subprocesses and the pending starts as
\* they were.
C8_EmptyKeyRejected ==
    [][\A s \in SockIds :
          Has(FrameEv("handled", s, Frame("stream-start", "")))' =>
              /\ activeStreams' = activeStreams
              /\ procs' = procs
              /\ starting' = starting
              /\ liveTimers' = liveTimers
              /\ Has(FrameEv("emit", s, Frame("error", "noKey")))']_vars

\* C8 witness: the directive was rejected on a connection that has a Session.
C8_Witness ==
    \E s \in SockIds :
        /\ Has(FrameEv("handled", s, Frame("stream-start", "")))
        /\ Has(FrameEv("emit", s, Frame("error", "noKey")))
        /\ activeStreams[s].present

\* C9: a start directive whose tool check finds the tool unavailable spawns
\* nothing, records no Session, schedules no live status and is answered with an
\* error frame on the open socket; the client that handles this error frame
\* keeps its phase.
C9_ToolUnavailable ==
    [][/\ \A s \in SockIds :
             Has(Ev("toolCheck", s, "unavailable"))' =>
                 /\ procs' = procs
                 /\ activeStreams' = activeStreams
                 /\ liveTimers' = liveTimers
                 /\ ~Has(FrameEv("emit", s, LiveFrame))'
                 /\ ssock[s] = "OPEN" =>
                        Has(FrameEv("emit", s, Frame("error", "startFailed")))'
       /\ \A s \in SockIds :
             Has(FrameEv("received", s, Frame("error", "startFailed")))' =>
                 state' = state]_vars

\* C9 witness: the tool check failed and the start directive was refused on an
\* open socket.
C9_Witness ==
    \E s \in SockIds :
        /\ Has(Ev("toolCheck", s, "unavailable"))
        /\ Has(Ev("startFalse", s, ""))
        /\ Has(FrameEv("emit", s, Frame("error", "startFailed")))
        /\ ~activeStreams[s].present

\* C10: whenever connect() returns false, the phase is error and a diagnostic is
\* set.
C10_FalseMeansError ==
    \A i \in 1..Len(ev) :
        ev[i].type = "connectReturn" /\ ev[i].arg # "true" =>
            state.status = "error" /\ state.error # "null"

\* C11: connect() reports a failure of socket s to its caller only when s is the
\* socket of the last candidate endpoint, every earlier candidate having been
\* tried before it.
C11_FailureAfterEveryCandidate ==
    [][\A s \in SockIds :
          (\/ Has(Ev("connectReturn", s, "refused"))'
           \/ Has(Ev("connectReturn", s, "timeout"))')
          => ws[s].endpoint = NumEndpoints]_vars

\* an attempt to connect is scheduled or under way
Retrying ==
    \/ ref.reconnectTimerRef
    \/ orphan > 0
    \/ Sum(probing) > 0
    \/ \E s \in SockIds : ws[s].waiter # NoCaller

\* C12: with autoReconnect on, no disconnect() since the attempt began (the phase
\* is still connecting) and the attempt counter below the maximum, a reconnect
\* attempt that fails (probe negative, socket refused, socket timeout) leaves
\* another attempt scheduled or under way.
C12_KeepsRetrying ==
    [][(/\ opts.autoReconnect
        /\ state.status = "connecting"
        /\ ref.reconnectAttemptsRef < opts.maxReconnectAttempts
        /\ \E i \in 1..Len(ev') : ev'[i].type = "reconnectReturn" /\ ev'[i].arg # "true")
       => Retrying']_vars

\* a step that is a call of the hook's API by its user
UserCall == UserConnect \/ UserDisconnect \/ UserStartStream \/ UserStopStream

\* the network closes the current socket s, which was open
ForcedClose(s) ==
    /\ ref.socketRef = s
    /\ ws[s].readyState = "OPEN"
    /\ ws'[s].readyState = "CLOSED"

\* C13: with autoReconnect on and a positive maximum, a forced close of the current
\* socket while the phase is streaming and the counter is 0 makes the phase
\* disconnected and the counter 1 and schedules one reconnect timer; from then on,
\* unless the user calls the hook, the phase stays disconnected until a reconnect
\* timer fires, which makes it connecting.
C13_DisconnectedThenConnecting ==
    [][/\ \A s \in SockIds :
            (/\ opts.autoReconnect /\ opts.maxReconnectAttempts > 0
             /\ state.status = "streaming" /\ ref.reconnectAttemptsRef = 0
             /\ ForcedClose(s))
            => /\ state'.status = "disconnected"
               /\ ref'.reconnectAttemptsRef = 1
               /\ ref'.reconnectTimerRef
               /\ Cardinality({i \in 1..Len(ev') : ev'[i].type = "reconnectScheduled"}) = 1
       /\ (/\ opts.autoReconnect
           /\ state.status = "disconnected" /\ ref.reconnectAttemptsRef = 1
           /\ ref.reconnectTimerRef
           /\ ~UserCall)
          => \/ state'.status = "disconnected" /\ ~HasType("timerConnect")'
             \/ state'.status = "connecting" /\ HasType("timerConnect")'
      ]_vars

\* C14: a start directive with a non-empty key handled on an open connection leads
\* to the server emitting stream-status live on it, unless the tool check finds the
\* tool unavailable, a stop directive is handled or the socket stops being open;
\* and the client, on receiving live on its current socket, has phase streaming.
C14_StartLeadsToStreaming ==
    /\ \A s \in 1..MaxConns :
          (ssock[s] = "OPEN" /\ Has(FrameEv("handled", s, Frame("stream-start", "abc123"))))
          ~> (\/ Has(FrameEv("emit", s, LiveFrame))
              \/ Has(Ev("toolCheck", s, "unavailable"))
              \/ Has(FrameEv("handled", s, Frame("stream-stop", "")))
              \/ ssock[s] # "OPEN")
    /\ [][\A s \in SockIds :
            (/\ ref.socketRef = s /\ ws[s].handlers /\ ws[s].readyState = "OPEN"
             /\ Has(FrameEv("received", s, LiveFrame))')
            => state'.status = "streaming" /\ state'.isStreaming]_vars

\* C14 witness: the server emits live on an open connection whose start directive
\* spawned the subprocess of its session.
C14_Witness ==
    \E s \in 1..MaxConns :
        /\ Has(FrameEv("emit", s, LiveFrame))
        /\ activeStreams[s] = [present |-> TRUE, process |-> 1, key |-> "abc123"]
        /\ procs[1].running

StopFrame == Frame("stream-stop", "")
StoppedFrame == Frame("stream-status", "stopped")

\* C15: a stop directive handled on a connection with a Session kills the
\* session's subprocess once, removes the Session in the same handler run and sets
\* one timer; each timer that fires on the open socket emits one stopped message;
\* and a pending timer leads to a stopped message unless the socket stops being open.
C15_StopTearsDownAndReports ==
    /\ [][\A s \in 1..MaxConns :
            /\ (Has(FrameEv("handled", s, StopFrame))' /\ activeStreams[s].present)
               => /\ activeStreams'[s] = NoStream
                  /\ stopTimers'[s] = stopTimers[s] + 1
                  /\ \A p \in Pids :
                        activeStreams[s].process = p
                        => ~procs'[p].running /\ procs'[p].kills = procs[p].kills + 1
            /\ (stopTimers'[s] < stopTimers[s] /\ ssock'[s] = "OPEN")
               => /\ stopTimers'[s] = stopTimers[s] - 1
                  /\ Cardinality({i \in 1..Len(ev') :
                                    ev'[i] = FrameEv("emit", s, StoppedFrame)}) = 1]_vars
    /\ \A s \in 1..MaxConns :
          (stopTimers[s] > 0) ~> (Has(FrameEv("emit", s, StoppedFrame)) \/ ssock[s] # "OPEN")

\* C15 witness: the stopped message is emitted for a connection whose subprocess
\* was killed once and whose Session is gone.
C15_Witness ==
    \E s \in 1..MaxConns :
        /\ Has(FrameEv("emit", s, StoppedFrame))
        /\ ~activeStreams[s].present
        /\ procs[1].conn = s /\ procs[1].kills = 1 /\ ~procs[1].running

\* C16: when the write of a binary frame to the subprocess of the connection's
\* Session fails, the handler tears the Session down: the subprocess is killed and
\* the Session leaves the registry.
C16_WriteFailureIsFatal ==
    [][\A s \in SockIds, p \in Pids :
          (/\ Has(Ev("writeFailed", s, ""))'
           /\ activeStreams[s].present /\ activeStreams[s].process = p
           /\ \E i \in FrameIds : chunks[i].stage = "write" /\ chunks[i].proc = p
                                    /\ chunks'[i].stage = "done")
          => ~activeStreams'[s].present /\ ~procs'[p].running]_vars

\* C17: a binary frame handled on a connection without a Session changes neither
\* the registry nor any subprocess nor the pending starts, starts no write, sends
\* no frame on the socket and leaves the socket open and registered.
C17_FrameWithoutSessionDropped ==
    [][\A s \in SockIds :
          (Has(Ev("binary", s, ""))' /\ ~activeStreams[s].present)
          => /\ activeStreams' = activeStreams
             /\ procs' = procs
             /\ starting' = starting
             /\ \A i \in FrameIds : chunks'[i].stage \in {"buf", "write"}
                                      => chunks'[i] = chunks[i]
             /\ ~HasType("emit")'
             /\ ssock'[s] = "OPEN" /\ sockets' = sockets /\ s \in sockets']_vars

\* C17 witness: a binary frame was dropped on an open connection whose Session was
\* ended by a stop directive.
C17_Witness ==
    \E s \in SockIds :
        /\ Has(Ev("binary", s, "")) /\ Has(Ev("noStream", s, ""))
        /\ ssock[s] = "OPEN" /\ ~activeStreams[s].present
        /\ procs[1].conn = s /\ ~procs[1].running

BadFrames == {Frame("malformed", ""), Frame("unknown", "")}

\* the frames emitted on connection s in the last step
Emitted(s) == {i \in 1..Len(ev) : ev[i].type = "emit" /\ ev[i].sock = s}

\* C18: a text frame that is not valid JSON or has an unknown type, handled on an
\* open socket, is answered with one error message and nothing else; the socket
\* stays open and registered, and the registry, the subprocesses, the pending
\* starts and the timers are unchanged.
C18_BadFrameAnsweredOnce ==
    [][\A s \in SockIds, f \in BadFrames :
          Has(FrameEv("handled", s, f))'
          => /\ Cardinality(Emitted(s)') = 1
             /\ \A i \in Emitted(s)' : ev'[i].ftype = "error"
             /\ ssock' = ssock /\ ssock'[s] = "OPEN" /\ sockets' = sockets
             /\ activeStreams' = activeStreams /\ procs' = procs
             /\ starting' = starting
             /\ liveTimers' = liveTimers /\ stopTimers' = stopTimers]_vars

\* C18 witness: a frame that is not valid JSON was answered on a connection whose
\* Session has a running subprocess.
C18_Witness ==
    \E s \in SockIds :
        /\ Has(FrameEv("handled", s, Frame("malformed", "")))
        /\ Has(FrameEv("emit", s, Frame("error", "badMessage")))
        /\ activeStreams[s].present /\ activeStreams[s].process = 1
        /\ procs[1].running

\* a frame of connection s, text or binary, was handled in the last step
FrameHandled(s) ==
    \/ Has(Ev("binary", s, ""))
    \/ \E i \in 1..Len(ev) : ev[i].type = "handled" /\ ev[i].sock = s

\* C19: a frame of a connection is handled only when no start directive of that
\* connection is still in progress, so that no binary frame is dropped as having
\* no session on account of a pending start; and the frames written to a
\* subprocess input are in arrival order.
C19_FramesInArrivalOrder ==
    [][/\ \A s \in SockIds : FrameHandled(s)' => starting[s] = <<>>
       /\ \A p \in Pids : \A i, j \in 1..Len(procs'[p].stdin) :
             i < j => procs'[p].stdin[i] < procs'[p].stdin[j]]_vars

\* the binary handlers that hold the writer of subprocess p's input
Writers(p) == {i \in FrameIds : chunks[i].stage = "write" /\ chunks[i].proc = p}

\* C20: at most one binary handler holds the writer of a subprocess input, and no
\* handler gives its frame up while another handler's write to the same input is
\* pending.
C20_WritesSerialized ==
    [][/\ \A p \in Pids : Cardinality(Writers(p)') <= 1
       /\ \A i \in FrameIds, s \in SockIds :
            (/\ chunks[i].stage = "buf" /\ chunks[i].conn = s
             /\ chunks'[i].stage = "done"
             /\ Has(Ev("getWriterThrows", s, ""))')
            => Writers(chunks[i].proc) = {}]_vars

\* a step leaves what the server keeps for connection b as it was: its end of the
\* socket, its place in the socket map, its registry entry, its pending starts,
\* its subprocesses and its binary handlers in flight
KeptAsItWas(b) ==
    /\ ssock'[b] = ssock[b]
    /\ (b \in sockets') = (b \in sockets)
    /\ activeStreams'[b] = activeStreams[b]
    /\ starting'[b] = starting[b]
    /\ \A p \in Pids : procs[p].conn = b \/ procs'[p].conn = b => procs'[p] = procs[p]
    /\ \A i \in FrameIds : chunks[i].conn = b \/ chunks'[i].conn = b => chunks'[i] = chunks[i]

\* C21: a step in which a handler of connection a runs (accept, text frame, start
\* resumed, binary frame and its buffer and write completions, error, close)
\* leaves what the server keeps for every other connection b as it was, and no
\* two connections' registry entries hold the same subprocess.
C21_SessionScoped ==
    [][\A a \in SockIds, b \in SockIds :
          (a # b /\ Has(Ev("handler", a, ""))')
          => /\ KeptAsItWas(b)
             /\ activeStreams'[a].process # 0
                    => activeStreams'[a].process # activeStreams'[b].process]_vars

\* C21 witness: the socket of the first connection closed while the second
\* connection has a Session with a running subprocess.
C21_Witness ==
    /\ Has(Ev("handler", 1, ""))
    /\ ssock[1] = "CLOSED" /\ ssock[2] = "OPEN"
    /\ activeStreams[2].present /\ activeStreams[2].process = 1
    /\ procs[1].running /\ procs[1].conn = 2

\* C22: the stream-status live message the server emits for a session without a
\* subprocess (the simulated fallback) is never the message it emits for a session
\* with a running subprocess.
C22_SimulatedDistinguishable ==
    \A s \in SockIds :
        activeStreams[s].present /\ activeStreams[s].process = 0
            => ~Has(FrameEv("emit", s, LiveFrame))

\* the connect() attempt for socket s timed out and the socket's close is pending:
\* only the timeout handler closes a socket whose handlers are attached
TimedOut(s) == ws[s].readyState = "CLOSING" /\ ws[s].handlers

Endpoints == generateEndpoints(prober.user, prober.host)

\* an answer that counts as the candidate answering: a 2xx response, or the
\* response of the relay path to a request without upgrade
Successful(a) ==
    \/ a.code = "200"
    \/ a.code \in {"400", "404"} /\ a.kind = "jsonWebSocket"

\* the fetches of the last step: the candidate's number and the answer
Fetches == {[at |-> ev[n].sock, answer |-> Answer(ev[n].arg, ev[n].ftype)] :
               n \in {m \in 1..Len(ev) : ev[m].type = "fetch"}}

\* C24: every fetch of checkServerHealth() goes to the candidate after the one
\* fetched before it, and none is made once a result stands; a candidate that
\* answers makes the result online with that candidate as serverUrl; one that
\* does not is passed over, and after the last one the result is offline.
C24_FirstAnswerInOrder ==
    [][\A f \in Fetches' :
          /\ f.at = prober.at + 1 /\ prober'.at = f.at
          /\ prober.result = NoResult
          /\ Successful(f.answer)
                 => prober'.result.status = "online" /\ prober'.result.serverUrl = f.at
          /\ ~Successful(f.answer)
                 => /\ prober'.result.serverUrl = 0
                    /\ prober'.result.status =
                           IF f.at = Len(Endpoints) THEN "offline" ELSE "unknown"]_vars

\* C24 witness: the first two candidates did not answer and the third did.
C24_Witness ==
    /\ prober.at = 3
    /\ prober.result.status = "online" /\ prober.result.serverUrl = 3
    /\ HasType("fetch")

\* the host checkServerStatus() stores in discoveredWsEndpointRef: that of the
\* candidate that answered
Discovered ==
    IF prober.result.status = "online" THEN Endpoints[prober.result.serverUrl].base ELSE 0

\* the socket endpoints connect() tries after the call of checkServerHealth()
SocketEndpoints == endpointsToTry(prober.wsEndpoint, Discovered)

\* C25: a location supplied by the caller is the first candidate probed, and a
\* socket endpoint supplied as the wsEndpoint option is the first one connect()
\* tries; a discovered location comes before the static ones; the static
\* locations keep their configured order.
C25_UserSuppliedFirst ==
    /\ prober.user # 0 => Endpoints[1].base = prober.user
    /\ prober.wsEndpoint # 0 => SocketEndpoints[1].base = prober.wsEndpoint
    /\ (prober.wsEndpoint = 0 /\ Discovered # 0) => SocketEndpoints[1].base = Discovered
    /\ \A i, j \in 1..Len(Endpoints) :
          (/\ i < j
           /\ Endpoints[i].base \in (1..NumStatic) \ {prober.user, prober.host}
           /\ Endpoints[j].base \in (1..NumStatic) \ {prober.user, prober.host})
          => Endpoints[i].base <= Endpoints[j].base

\* the fetch of candidate i was answered with a in the last step
Fetched(i, a) == Has([type |-> "fetch", sock |-> i, ftype |-> a.kind, arg |-> a.code])

\* the step made the result online for candidate i
MadeOnline(i) == prober'.result.status = "online" /\ prober'.result.serverUrl = i

\* the step passed the candidate over: no result yet, or offline after the last one
PassedOver == prober'.result.serverUrl = 0 /\ prober'.result.status # "online"

UpgradeRequired(a, codes) == a.code \in codes /\ a.kind = "jsonWebSocket"

C27_ToolStatusNotReachability ==
    [][Has(Ev("healthResult", 0, "unavailable"))'
       => /\ ~(state'.status = "error" /\ state'.error = "offline")
          /\ Created(ws') = Created(ws) + 1
          /\ ~\E i \in 1..Len(ev') : ev'[i].type = "connectReturn" /\ ev'[i].arg = "offline"
      ]_vars

StatusPaths == {"/health", "/health-plain", "/ffmpeg-check"}

\* what the body of a response says of the tool: the ffmpegAvailable field, or the
\* text's verdict
SaysAvailable(body) ==
    IF body.ftype # "" THEN body.ftype = "true" ELSE body.arg = "OK: FFmpeg available"

\* C28: a relay's answer to /health, /health-plain or /ffmpeg-check has status 200
\* whether the tool's version query succeeded or failed, and its body reports the
\* availability that the query found.
C28_StatusAlways200 ==
    \A i, j, k \in 1..Len(ev) :
        (/\ ev[i].type = "toolQuery"
         /\ ev[j].type = "response" /\ ev[j].ftype \in StatusPaths
         /\ ev[k].type = "body")
        => /\ ev[j].arg = "200"
           /\ SaysAvailable(ev[k]) = (ev[i].arg = "true")

\* C28 witness: /health-plain of the Deno relay answered while the tool is absent.
C28_Witness ==
    /\ Has(Ev("toolQuery", 3, "false"))
    /\ Has([type |-> "response", sock |-> 3, ftype |-> "/health-plain", arg |-> "200"])
    /\ Has([type |-> "body", sock |-> 3, ftype |-> "", arg |-> "WARNING: FFmpeg not available"])

\* C29: a ping with timestamp t handled on an open socket is answered with one
\* pong, and the pong's timestamp is t.
C29_PongEchoesTimestamp ==
    \A s \in SockIds :
        (Has(FrameEv("handled", s, Frame("ping", "t"))) /\ ssock[s] = "OPEN")
        => /\ Cardinality({i \in Emitted(s) : ev[i].ftype = "pong"}) = 1
           /\ \A i \in Emitted(s) : ev[i].ftype = "pong" => ev[i].arg = "t"

\* the hook's socket is open
SocketOpen == ref.socketRef # 0 /\ ws[ref.socketRef].readyState = "OPEN"

\* C30: sendBinaryData(data) called while the phase is streaming and the socket is
\* open sends one binary frame and adds 1 to dataChunks and data.size to
\* bytesSent; called in any other state it sends nothing and leaves the
\* statistics as they were.
C30_SendsOnlyWhileStreaming ==
    [][\A size \in Sizes :
          Has(Ev("sendBinaryData", size, ""))'
          => IF state.status = "streaming" /\ SocketOpen
             THEN /\ Cardinality({i \in 1..Len(ev') : ev'[i].type = "sentBinary"}) = 1
                  /\ stats'.dataChunks = stats.dataChunks + 1
                  /\ stats'.bytesSent = stats.bytesSent + size
             ELSE /\ ~HasType("sentBinary")'
                  /\ stats' = stats]_vars

\* no reconnect timer, heartbeat interval or stats interval is running, whether a
\* handle names it or not
NoTimerPending ==
    /\ ~ref.reconnectTimerRef
    /\ orphan = 0
    /\ intervals = NoIntervals

\* C31: disconnect() called while streaming sends the stream-stop directive on the
\* socket before it closes the socket; after disconnect() the phase is
\* disconnected, the socket reference is empty and no heartbeat, stats or
\* reconnect timer is pending; a second disconnect() raises no error (it
\* returns) and changes nothing.
C31_DisconnectTearsDown ==
    [][HasType("disconnectReturn")' =>
          /\ \A s \in SockIds :
                (state.status = "streaming" /\ SocketOpen /\ ref.socketRef = s)
                => /\ Has(FrameEv("sent", s, Frame("stream-stop", "")))'
                   /\ ws'[s].readyState = "CLOSING"
          /\ state'.status = "disconnected"
          /\ ref'.socketRef = 0
          /\ NoTimerPending'
          /\ HasType("disconnectReturn")
             => UNCHANGED <<state, ref, ws, probing, orphan, stats, intervals>>]_vars

\* C34: a disconnect() issued while a connect() is in flight wins: from its return
\* until the next explicit connect() (or startStream()) the phase stays
\* disconnected, the socket reference stays empty and no socket is created.
C34_DisconnectWins ==
    [][released /\ released' =>
          /\ state'.status = "disconnected"
          /\ ref'.socketRef = 0
          /\ Created(ws') = Created(ws)]_vars

\* C32: in every reachable state the flags agree with the phase: isStreaming is
\* true exactly when the phase is streaming, and isConnected exactly when the
\* phase is connected or streaming (so both are false after disconnect(), and
\* isStreaming is false in the phases connecting and connected).
C32_FlagsAgreeWithPhase ==
    /\ state.isStreaming <=> state.status = "streaming"
    /\ state.isConnected <=> state.status \in {"connected", "streaming"}

\* the registry entries that refer to subprocess p
Owners(p) == {s \in SockIds : activeStreams[s].present /\ activeStreams[s].process = p}

\* C33: every running transcoding subprocess is owned by exactly one registry
\* entry; a start directive on a connection that already has a Session never
\* leaves the earlier subprocess running with no entry referring to it.
C33_RunningSubprocessOwned ==
    \A p \in Pids : procs[p].running => Cardinality(Owners(p)) = 1

\* C35: the hook never has more than one running timer of a kind (no running
\* reconnect timer, heartbeat interval or stats interval has lost its handle to
\* a later one), and no heartbeat or stats interval is running while the socket
\* reference is empty.
C35_OneTimerOfEachKind ==
    /\ orphan = 0
    /\ intervals.orphanHeartbeat = 0
    /\ intervals.orphanStats = 0
    /\ ref.socketRef = 0 => ~intervals.heartbeatTimerRef /\ ~intervals.statsTimerRef

====
